---- MODULE Spec2Model ----
(***************************************************************************)
(* CozmoObjectPermanenceModule (retico_object_permanence):                 *)
(* a producer (process_update) feeding a deque(maxlen=1), and the consumer *)
(* loop _extractor_thread that classifies each dequeued IU, drives the     *)
(* exploration behaviour from speech and anchors newly seen objects.       *)
(*                                                                         *)
(* Conventions.  Python None is 0 for handles and the record NoIU / NoObj  *)
(* for IUs and detected objects.  Strings the code inspects (recognised    *)
(* text, labels) are sequences of one-character strings.  Lengths derived  *)
(* from a bounding box are carried in HALF pixels, so that Python's true   *)
(* division by 2 stays exact on integers.                                  *)
(***************************************************************************)
EXTENDS Integers, Sequences, FiniteSets, TLC

\* ------------------------------------------------------------- bounds
\* IUs the upstream pipeline ADDs in one run of the model.
MaxEvents == 3
\* Largest update_message (number of (iu, ut) pairs) handed to process_update.
MaxMsgLen == 2
\* Thread slots prepare_run can fill.
MaxThreads == 2

\* ------------------------------------------------- program constants
\* deque(maxlen=1)
QueueMaxLen == 1
\* "set to a 10x10 cube"
MinDim == 10
\* known_width_mm
known_width_mm == 76
\* self.robot.camera.config.focal_length.x of the robot under test
focal_length_x == 300

None == 0
Threads == 1..MaxThreads

\* ------------------------------------------------------------ strings
Whitespace == {" ", "\t", "\n"}

UpperCase ==
  [c \in {"A","E","G","H","M","O","P","S","U"} |->
     CASE c = "A" -> "a" [] c = "E" -> "e" [] c = "G" -> "g" [] c = "H" -> "h"
       [] c = "M" -> "m" [] c = "O" -> "o" [] c = "P" -> "p" [] c = "S" -> "s"
       [] c = "U" -> "u"]

\* str.lower()
Lower(s) == [i \in 1..Len(s) |-> IF s[i] \in DOMAIN UpperCase THEN UpperCase[s[i]] ELSE s[i]]

\* str.strip(): leading and trailing whitespace removed
Strip(s) ==
  LET keep == {i \in 1..Len(s) : s[i] \notin Whitespace}
      Min(S) == CHOOSE x \in S : \A y \in S : x <= y
      Max(S) == CHOOSE x \in S : \A y \in S : x >= y
  IN  IF keep = {} THEN <<>> ELSE SubSeq(s, Min(keep), Max(keep))

\* `sub in s` on Python strings: sub is a contiguous substring of s
Contains(sub, s) ==
  \E i \in 1..(Len(s) - Len(sub) + 1) : SubSeq(s, i, i + Len(sub) - 1) = sub

PAUSE   == <<"p","a","u","s","e">>
EXPLORE == <<"e","x","p","l","o","r","e">>
HOME    == <<"h","o","m","e">>

MUG == <<"m","u","g">>
CUP == <<"c","u","p">>

\* Recognised utterances the ASR delivers (SpeechRecognitionIU.text).
Texts ==
  << <<" ","P","a","u","s","e">>,                        \* " Pause"
     <<"e","x","p","l","o","r","e","r">>,                \* "explorer"
     <<"g","o"," ","H","O","M","E"," ">>,                \* "go HOME "
     <<"M","u","g">>,                                    \* "Mug"
     <<"f","i","n","d"," ","m","u","g">>,                \* "find mug"
     <<"e","x","p","l","o","r","e"," ","h","o","m","e">> \* "explore home"
  >>

\* ---------------------------------------------------- detected objects
GeomKeys == {"xmin", "xmax", "ymin", "ymax"}

Obj(l, x0, x1, y0, y1, ks) ==
  [label_str |-> l, xmin |-> x0, xmax |-> x1, ymin |-> y0, ymax |-> y1, keys |-> ks]

NoObj == Obj(<<>>, 0, 0, 0, 0, {})

\* DetectedObjectsIU payloads: the dict {'object0': ..., 'object1': ...} as the
\* sequence of its values.
Payloads ==
  << <<>>,                                                    \* nothing detected
     << Obj(MUG, 0, 40, 0, 60, GeomKeys), Obj(CUP, 10, 60, 10, 50, GeomKeys) >>,
     << Obj(CUP, 3, 14, 0, 60, GeomKeys) >>,                  \* narrow box
     << Obj(MUG, 0, 40, 0, 60, GeomKeys \ {"xmin"}) >>,       \* no 'xmin' key
     << Obj(CUP, 5, 5, 0, 30, GeomKeys) >>                    \* xmax = xmin
  >>

\* ----------------------------------------------------------------- IUs
SpeechRecognitionIU == "SpeechRecognitionIU"
DetectedObjectsIU   == "DetectedObjectsIU"

IU(n, ty, tx, pl) == [id |-> n, type |-> ty, text |-> tx, payload |-> pl]
NoIU == IU(0, "None", 0, 0)

\* The IUs upstream can produce with identity n.
NewIUs(n) ==
  {IU(n, SpeechRecognitionIU, i, 0) : i \in 1..Len(Texts)} \cup
  {IU(n, DetectedObjectsIU, 0, j) : j \in 1..Len(Payloads)}

UpdateTypes == {"ADD", "REVOKE", "COMMIT"}

\* Poses are reduced to their x coordinate (mm).
StartPoses == {0, 300}
\* fixed_object.pose as the SDK reports it for a new anchor
AnchorPoses == {300, 600}

VARIABLES
  queue,                    \* self.queue
  next_iu,                  \* identity of the next IU upstream creates
  extractor_thread_active,  \* self._extractor_thread_active ("unset" before prepare_run)
  pc,                       \* per thread: position in _extractor_thread
  input_iu,                 \* per thread: local input_iu
  exc,                      \* per thread: the exception that ended it ("" while alive)
  last,                     \* per thread: the branch its last completed step took
  objects,                  \* self.objects (index into Payloads, 0 = [])
  top_object,               \* self.top_object
  tracked_objects,          \* self.tracked_objects
  current_behavior,         \* self.current_behavior
  robot_start_position,     \* self.robot_start_position
  robot,                    \* the actuation layer (cozmo robot) as the module sees it
  output_iu,                \* per thread: local output_iu
  outputs,                  \* UpdateMessages appended downstream
  pops                      \* history: times each IU was dequeued

vars == <<queue, next_iu, extractor_thread_active, pc, input_iu, exc, last,
          objects, top_object, tracked_objects, current_behavior,
          robot_start_position, robot, output_iu, outputs, pops>>

\* ------------------------------------------------------------ the queue
\* deque(maxlen=1).append(x): append on the right, discard from the left
\* while the deque is longer than maxlen
DequeAppend_unbounded(q, x) == Append(q, x)

DequeAppend(q, x) ==
  LET grown == Append(q, x)
  IN  IF Len(grown) > QueueMaxLen
      THEN SubSeq(grown, Len(grown) - QueueMaxLen + 1, Len(grown))
      ELSE grown

ProcessUpdateRun_revoking(q, um) ==
  IF um = <<>> THEN q
  ELSE IF Head(um)[2] # "ADD" THEN <<>> ELSE DequeAppend(q, Head(um)[1])

\* process_update run on a whole update_message (a sequence of <<iu, ut>>)
RECURSIVE ProcessUpdateRun(_, _)
ProcessUpdateRun(q, um) ==
  IF um = <<>> THEN q
  ELSE LET iu == Head(um)[1]
           ut == Head(um)[2]
       IN  IF ut # "ADD"
           THEN ProcessUpdateRun(q, Tail(um))
           ELSE ProcessUpdateRun(DequeAppend(q, iu), Tail(um))

\* --------------------------------------------------------- the registry
\* tracked_objects is a dict label -> list of records: a function whose
\* domain is the set of keys.
Labels == UNION {{Payloads[j][k].label_str : k \in 1..Len(Payloads[j])} : j \in 1..Len(Payloads)}

EmptyDict == [k \in {} |-> <<>>]
HasKey(d, k) == k \in DOMAIN d

\* dict with d[k] = v added or replaced
Put(d, k, v) == [l \in DOMAIN d \cup {k} |-> IF l = k THEN v ELSE d[l]]

\* ------------------------------------------------- behaviour coordinator
\* What a method leaves behind: the new current_behavior, the robot after the
\* calls made on it, and the exception that escaped ("" for a normal return).
Result(cb, rb, e) == [current_behavior |-> cb, robot |-> rb, exc |-> e]

begin_explore_bound(cb, rb) ==
  IF cb = None
  THEN LET h == rb.behaviors_started + 1
       IN  Result(h, [rb EXCEPT !.behaviors_started = h,
                                !.active_behaviors = @ \cup {h}], "")
  ELSE Result(cb, rb, "")

\* begin_explore(): the argument of start_behavior names `cozmo`, which the
\* module never binds (line 15 imports Pose and degrees FROM cozmo.util), so
\* evaluating it raises NameError before start_behavior is called.
begin_explore(cb, rb) ==
  IF cb = None
  THEN Result(cb, rb, "NameError")
  ELSE Result(cb, rb, "")

stop_execution_unguarded(cb, rb, ok) ==
  Result(None, [rb EXCEPT !.stop_calls = @ + 1, !.active_behaviors = @ \ {cb}], "")

\* stop_execution(); ok says whether current_behavior.stop() returns or raises.
stop_execution(cb, rb, ok) ==
  IF cb # None
  THEN LET called == [rb EXCEPT !.stop_calls = @ + 1]
       IN  IF ok
           THEN Result(None, [called EXCEPT !.active_behaviors = @ \ {cb}], "")
           ELSE Result(cb, called, "ActuationFailure")
  ELSE Result(cb, rb, "")

\* ------------------------------------------------------------- geometry
\* (xmax - xmin)/2 and (ymax - ymin)/2, in half pixels
object_x_dims(o) == o.xmax - o.xmin
object_y_dims(o) == o.ymax - o.ymin

\* calc_distance_from_cozmo(w): known_width_mm * focal_length.x / w, as the
\* fraction num/den (w is in half pixels, hence the 2)
calc_distance_from_cozmo(w) == [num |-> 2 * known_width_mm * focal_length_x, den |-> w]

Footprint_unclamped(o) == <<object_x_dims(o), object_y_dims(o)>>

Footprint_per_axis(o) ==
  <<IF object_x_dims(o) < 2 * MinDim THEN 2 * MinDim ELSE object_x_dims(o),
    IF object_y_dims(o) < 2 * MinDim THEN 2 * MinDim ELSE object_y_dims(o)>>

\* "If the object is very small, set to a 10x10 cube": the footprint
\* <<object_x_dims, object_y_dims>> after lines 153-155, in half pixels
Footprint(o) ==
  IF object_x_dims(o) < 2 * MinDim \/ object_y_dims(o) < 2 * MinDim
  THEN <<2 * MinDim, 2 * MinDim>>
  ELSE <<object_x_dims(o), object_y_dims(o)>>

\* The exception lines 148-150 raise for top object o ("" when none)
GeometryError(o) ==
  IF ~(GeomKeys \subseteq o.keys) THEN "KeyError:geometry"
  ELSE IF object_x_dims(o) = 0 THEN "ZeroDivisionError"
  ELSE ""

\* --------------------------------------------------------------- speech
\* input_iu.text.strip().lower()
input_text(iu) == Lower(Strip(Texts[iu.text]))

\* The branch of lines 115-123 taken for the normalised text
Command(text) ==
  IF Contains(PAUSE, text) THEN "pause"
  ELSE IF Contains(EXPLORE, text) THEN "explore"
  ELSE IF Contains(HOME, text) THEN "home"
  ELSE "go_to_object"

HomePose_current == robot.pose

\* The pose handed to go_to_pose by the "home" branch
HomePose == robot_start_position

\* go_to_object: x - x/3 of the first record's object_pose (poses are
\* multiples of 3 mm, so the division is exact)
near_object_pose(object_pose) == object_pose - (object_pose \div 3)

\* ----------------------------------------------------------------- Init
\* The state __init__ leaves (lines 45-53), no thread started.
NoOutput == [object_name |-> <<>>, object_id |-> 0, grounded_in |-> 0]

Init ==
  /\ queue = <<>>
  /\ next_iu = 1
  /\ extractor_thread_active = "unset"
  /\ pc = [t \in Threads |-> "unstarted"]
  /\ input_iu = [t \in Threads |-> NoIU]
  /\ output_iu = [t \in Threads |-> NoOutput]
  /\ exc = [t \in Threads |-> ""]
  /\ last = [t \in Threads |-> ""]
  /\ objects = 0
  /\ top_object = NoObj
  /\ tracked_objects = EmptyDict
  /\ current_behavior = None
  /\ \E p \in StartPoses :
       /\ robot = [pose |-> p, go_to_pose_calls |-> <<>>, in_flight |-> {},
                   anchors |-> <<>>, say_text_calls |-> <<>>,
                   behaviors_started |-> 0, active_behaviors |-> {},
                   stop_calls |-> 0]
       /\ robot_start_position = p
  /\ outputs = <<>>
  /\ pops = [i \in 1..MaxEvents |-> 0]

\* ------------------------------------------------------------- the host
\* prepare_run(): sets the flag and starts one more _extractor_thread.
PrepareRun ==
  \E t \in Threads :
    /\ pc[t] = "unstarted"
    /\ \A u \in Threads : u < t => pc[u] # "unstarted"
    /\ extractor_thread_active' = "True"
    /\ pc' = [pc EXCEPT ![t] = "poll"]
    /\ UNCHANGED <<queue, next_iu, input_iu, output_iu, exc, last, objects, top_object,
                   tracked_objects, current_behavior, robot_start_position, robot,
                   outputs, pops>>

\* The host's run(): prepare_run() called once in the module's lifetime.
Run ==
  /\ \A t \in Threads : pc[t] = "unstarted"
  /\ PrepareRun

\* shutdown()
Shutdown ==
  /\ extractor_thread_active' = "False"
  /\ UNCHANGED <<queue, next_iu, pc, input_iu, output_iu, exc, last, objects,
                 top_object, tracked_objects, current_behavior, robot_start_position,
                 robot, outputs, pops>>

\* --------------------------------------------------------- the producer
\* process_update, one <<iu, ut>> pair of the update_message per step (the
\* consumer thread runs between two iterations of the for loop).
ProcessUpdate ==
  \E ut \in UpdateTypes :
    IF ut = "ADD"
    THEN /\ next_iu <= MaxEvents
         /\ \E iu \in NewIUs(next_iu) :
              queue' = ProcessUpdateRun(queue, << <<iu, ut>> >>)
         /\ next_iu' = next_iu + 1
         /\ UNCHANGED <<extractor_thread_active, pc, input_iu, output_iu, exc, last,
                        objects, top_object, tracked_objects, current_behavior,
                        robot_start_position, robot, outputs, pops>>
    ELSE /\ queue' = ProcessUpdateRun(queue, << <<NoIU, ut>> >>)
         /\ UNCHANGED <<next_iu, extractor_thread_active, pc, input_iu, output_iu, exc,
                        last, objects, top_object, tracked_objects, current_behavior,
                        robot_start_position, robot, outputs, pops>>

\* --------------------------------------------------- _extractor_thread
\* A thread that leaves by an exception: nothing in the loop catches it.
Goto(t, where) == pc' = [pc EXCEPT ![t] = where]
Raise(t, e) == /\ pc' = [pc EXCEPT ![t] = "dead"]
               /\ exc' = [exc EXCEPT ![t] = e]

\* lines 104-107: an empty queue sleeps and polls again
Poll(t) ==
  /\ pc[t] = "poll"
  /\ IF Len(queue) = 0 THEN UNCHANGED pc ELSE Goto(t, "pop")
  /\ UNCHANGED <<queue, next_iu, extractor_thread_active, input_iu, output_iu, exc,
                 last, objects, top_object, tracked_objects, current_behavior,
                 robot_start_position, robot, outputs, pops>>

\* line 109: popleft() raises IndexError on an empty deque
PopLeft(t) ==
  /\ pc[t] = "pop"
  /\ IF queue = <<>>
     THEN /\ Raise(t, "IndexError")
          /\ UNCHANGED <<queue, input_iu, pops>>
     ELSE /\ input_iu' = [input_iu EXCEPT ![t] = Head(queue)]
          /\ queue' = Tail(queue)
          /\ pops' = [pops EXCEPT ![Head(queue).id] = @ + 1]
          /\ Goto(t, "classify")
          /\ UNCHANGED exc
  /\ UNCHANGED <<next_iu, extractor_thread_active, output_iu, last, objects, top_object,
                 tracked_objects, current_behavior, robot_start_position, robot,
                 outputs>>

\* robot.go_to_pose(pose) issued by thread t; the action stays in flight until
\* wait_for_completed() returns
go_to_pose(rb, t, pose) ==
  [rb EXCEPT !.go_to_pose_calls = Append(@, pose),
             !.in_flight = @ \cup {[by |-> t, pose |-> pose]}]

go_to_object_substring(object_name, t, cb, rb, ok) ==
  IF \E k \in DOMAIN tracked_objects : Contains(k, object_name)
  THEN LET k == CHOOSE k \in DOMAIN tracked_objects : Contains(k, object_name)
       IN  Result(cb, go_to_pose(rb, t, near_object_pose(tracked_objects[k][1].object_pose)), "")
  ELSE Result(cb, rb, "")

\* go_to_object(object_name), lines 62-81 up to the go_to_pose call.  A Pose
\* is always truthy, so `if object_pose` is `object_name in tracked_objects`.
go_to_object(object_name, t, cb, rb, ok) ==
  IF HasKey(tracked_objects, object_name)
  THEN LET seen == tracked_objects[object_name]
           object_pose == seen[1].object_pose
           stopped == stop_execution(cb, rb, ok)
       IN  IF stopped.exc # ""
           THEN stopped
           ELSE Result(stopped.current_behavior,
                       go_to_pose(stopped.robot, t, near_object_pose(object_pose)), "")
  ELSE Result(cb, rb, "")

\* lines 112-125 for the dequeued SpeechRecognitionIU
SpeechResult(t, text, ok) ==
  CASE Command(text) = "pause"   -> stop_execution(current_behavior, robot, ok)
    [] Command(text) = "explore" -> begin_explore(current_behavior, robot)
    [] Command(text) = "home"    -> Result(current_behavior, go_to_pose(robot, t, HomePose), "")
    [] OTHER -> go_to_object(text, t, current_behavior, robot, ok)

Waiting(rb, t) == \E a \in rb.in_flight : a.by = t

Speech_fallthrough(t) ==
  /\ pc[t] = "classify"
  /\ input_iu[t].type = SpeechRecognitionIU
  /\ \E ok \in BOOLEAN :
       LET text == input_text(input_iu[t])
           r == SpeechResult(t, text, ok)
       IN  /\ current_behavior' = r.current_behavior
           /\ robot' = r.robot
           /\ last' = [last EXCEPT ![t] = Command(text)]
           /\ top_object' = IF r.exc # "" THEN top_object ELSE NoObj
           /\ Raise(t, IF r.exc # "" THEN r.exc ELSE "KeyError:object0")
  /\ UNCHANGED <<queue, next_iu, extractor_thread_active, input_iu, output_iu, objects,
                 tracked_objects, robot_start_position, outputs, pops>>

Speech(t) ==
  /\ pc[t] = "classify"
  /\ input_iu[t].type = SpeechRecognitionIU
  /\ \E ok \in BOOLEAN :
       LET text == input_text(input_iu[t])
           r == SpeechResult(t, text, ok)
       IN  /\ current_behavior' = r.current_behavior
           /\ robot' = r.robot
           /\ last' = [last EXCEPT ![t] =
                         IF Command(text) = "go_to_object" /\ ~HasKey(tracked_objects, text)
                         THEN "not_found" ELSE Command(text)]
           /\ IF r.exc # "" THEN Raise(t, r.exc)
              ELSE /\ Goto(t, IF Waiting(r.robot, t) THEN "wait_completed" ELSE "poll")
                   /\ UNCHANGED exc
  /\ UNCHANGED <<queue, next_iu, extractor_thread_active, input_iu, output_iu, objects,
                 top_object, tracked_objects, robot_start_position, outputs, pops>>

\* .wait_for_completed() of lines 81 and 121: the motion ends (the robot is
\* at the pose asked for) or the wait raises; a hang is this step never taken
WaitForCompleted(t) ==
  /\ pc[t] = "wait_completed"
  /\ \E a \in robot.in_flight, ok \in BOOLEAN :
       /\ a.by = t
       /\ IF ok
          THEN /\ robot' = [robot EXCEPT !.in_flight = @ \ {a}, !.pose = a.pose]
               /\ Goto(t, "poll")
               /\ UNCHANGED exc
          ELSE /\ robot' = [robot EXCEPT !.in_flight = @ \ {a}]
               /\ Raise(t, "ActuationFailure")
  /\ UNCHANGED <<queue, next_iu, extractor_thread_active, input_iu, output_iu, last,
                 objects, top_object, tracked_objects, current_behavior,
                 robot_start_position, outputs, pops>>

\* lines 127-134 for the dequeued DetectedObjectsIU: a non-empty payload sets
\* top_object and appends input_iu to the queue again
Detected(t) ==
  /\ pc[t] = "classify"
  /\ input_iu[t].type = DetectedObjectsIU
  /\ objects' = input_iu[t].payload
  /\ IF Len(Payloads[input_iu[t].payload]) > 0
     THEN /\ top_object' = Payloads[input_iu[t].payload][1]
          /\ queue' = DequeAppend(queue, input_iu[t])
     ELSE UNCHANGED <<top_object, queue>>
  /\ Goto(t, "dedup")
  /\ UNCHANGED <<next_iu, extractor_thread_active, input_iu, output_iu, exc, last,
                 tracked_objects, current_behavior, robot_start_position, robot,
                 outputs, pops>>

AlreadyTracked_unchecked(object_label) == FALSE

\* line 139
AlreadyTracked(object_label) == HasKey(tracked_objects, object_label)

\* lines 137-155: the label of payload['object0'], the check against the
\* registry, stop_execution() and the geometry of the box
Dedup(t) ==
  /\ pc[t] = "dedup"
  /\ LET payload == Payloads[input_iu[t].payload]
     IN  IF Len(payload) = 0
         THEN /\ Raise(t, "KeyError:object0")
              /\ UNCHANGED <<queue, last, current_behavior, robot>>
         ELSE IF AlreadyTracked(payload[1].label_str)
         THEN /\ queue' = <<>>
              /\ last' = [last EXCEPT ![t] = "already_tracked"]
              /\ Goto(t, "poll")
              /\ UNCHANGED <<exc, current_behavior, robot>>
         ELSE \E ok \in BOOLEAN :
                LET stopped == stop_execution(current_behavior, robot, ok)
                    e == IF stopped.exc # "" THEN stopped.exc ELSE GeometryError(payload[1])
                IN  /\ current_behavior' = stopped.current_behavior
                    /\ robot' = stopped.robot
                    /\ last' = [last EXCEPT ![t] = "new_object"]
                    /\ IF e # "" THEN Raise(t, e)
                       ELSE Goto(t, "anchor") /\ UNCHANGED exc
                    /\ UNCHANGED queue
  /\ UNCHANGED <<next_iu, extractor_thread_active, input_iu, output_iu, objects,
                 top_object, tracked_objects, robot_start_position, outputs, pops>>

\* lines 150-160: the custom fixed object created for top object o, which the
\* robot localises at pose p: x_size_mm and y_size_mm are both object_y_dims,
\* z_size_mm is object_x_dims
FixedObject(o, p, rb) ==
  LET distance == calc_distance_from_cozmo(object_x_dims(o))
      dims == Footprint(o)
  IN  [object_id |-> Len(rb.anchors) + 1, pose |-> p,
       distance |-> distance, x_size_mm |-> dims[2],
       y_size_mm |-> dims[2], z_size_mm |-> dims[1],
       relative_to |-> rb.pose, label |-> o.label_str]

\* The record lines 162/164 store for an anchor
Record(robot_pose, fixed_object, object_label) ==
  [robot_pose |-> robot_pose, object_pose |-> fixed_object.pose,
   object_name |-> object_label, object_id |-> fixed_object.object_id]

\* lines 161-164
Track(d, object_label, rec) ==
  IF HasKey(d, object_label)
  THEN Put(d, object_label, Append(d[object_label], rec))
  ELSE Put(d, object_label, <<rec>>)

\* lines 156-164: create_iu, create_custom_fixed_object (which may raise),
\* set_object and the registry update
Anchor(t) ==
  /\ pc[t] = "anchor"
  /\ \E ok \in BOOLEAN, p \in AnchorPoses :
       LET o == Payloads[input_iu[t].payload][1]
           object_label == o.label_str
           fixed_object == FixedObject(o, p, robot)
       IN  IF ok
           THEN /\ robot' = [robot EXCEPT !.anchors = Append(@, fixed_object)]
                /\ output_iu' = [output_iu EXCEPT ![t] =
                                   [object_name |-> object_label,
                                    object_id |-> fixed_object.object_id,
                                    grounded_in |-> input_iu[t].id]]
                /\ tracked_objects' =
                     Track(tracked_objects, object_label,
                           Record(robot.pose, fixed_object, object_label))
                /\ Goto(t, "say")
                /\ UNCHANGED exc
           ELSE /\ Raise(t, "ActuationFailure")
                /\ UNCHANGED <<robot, output_iu, tracked_objects>>
  /\ UNCHANGED <<queue, next_iu, extractor_thread_active, input_iu, last, objects,
                 top_object, current_behavior, robot_start_position, outputs, pops>>

\* line 165: say_text(object_label, ...).wait_for_completed() returns or raises;
\* an announcement that never completes is this step never taken
SayText(t) ==
  /\ pc[t] = "say"
  /\ robot' = [robot EXCEPT !.say_text_calls = Append(@, output_iu[t].object_name)]
  /\ \E ok \in BOOLEAN :
       IF ok THEN Goto(t, "emit") /\ UNCHANGED exc
       ELSE Raise(t, "ActuationFailure")
  /\ UNCHANGED <<queue, next_iu, extractor_thread_active, input_iu, output_iu, last,
                 objects, top_object, tracked_objects, current_behavior,
                 robot_start_position, outputs, pops>>

\* lines 167-168: the UpdateMessage appended downstream
Emit(t) ==
  /\ pc[t] = "emit"
  /\ outputs' = Append(outputs, output_iu[t])
  /\ last' = [last EXCEPT ![t] = "anchored"]
  /\ Goto(t, "poll")
  /\ UNCHANGED <<queue, next_iu, extractor_thread_active, input_iu, output_iu, exc,
                 objects, top_object, tracked_objects, current_behavior,
                 robot_start_position, robot, pops>>

\* -------------------------------------------------------- specification
Thread(t) ==
  \/ Poll(t)
  \/ PopLeft(t)
  \/ Speech(t)
  \/ WaitForCompleted(t)
  \/ Detected(t)
  \/ Dedup(t)
  \/ Anchor(t)
  \/ SayText(t)
  \/ Emit(t)

\* One producer and the consumer loop started by a single prepare_run().
Next ==
  \/ Run
  \/ Shutdown
  \/ ProcessUpdate
  \/ \E t \in Threads : Thread(t)

Spec == Init /\ [][Next]_vars

\* A host that calls prepare_run() any number of times: each call starts one
\* more thread on _extractor_thread (lines 170-172 take no notice of a thread
\* already running).
MaxEventsMulti == 2

\* process_update, while fewer than MaxEventsMulti events have been added
ProcessUpdateMulti == ProcessUpdate /\ next_iu' <= MaxEventsMulti + 1

\* Two loops can hand one re-appended detection back and forth for ever
\* (line 132 against line 141); the run is followed for MaxPops dequeues of
\* an event
MaxPops == 2

ThreadMulti(t) == Thread(t) /\ \A i \in 1..MaxEvents : pops'[i] <= MaxPops

NextMulti ==
  \/ PrepareRun
  \/ Shutdown
  \/ ProcessUpdateMulti
  \/ \E t \in Threads : ThreadMulti(t)

SpecMulti == Init /\ [][NextMulti]_vars

\* ------------------------------------------- geometry of one bounding box
\* Pixel coordinates of the boxes measured: spans run from negative, through
\* zero and below 2 * MinDim, to above it
MaxCoord == 26
MinCoords == {0, 4}

GeomBoxes ==
  {Obj(MUG, x0, x1, y0, y1, GeomKeys) :
     x0 \in MinCoords, x1 \in 0..MaxCoord, y0 \in MinCoords, y1 \in 0..MaxCoord}

\* The loop after line 145 with payload['object0'] drawn from GeomBoxes
InitGeom ==
  /\ queue = <<>>
  /\ next_iu = 1
  /\ extractor_thread_active = "True"
  /\ pc = [t \in Threads |-> IF t = 1 THEN "measure" ELSE "unstarted"]
  /\ input_iu = [t \in Threads |-> NoIU]
  /\ output_iu = [t \in Threads |-> NoOutput]
  /\ exc = [t \in Threads |-> ""]
  /\ last = [t \in Threads |-> IF t = 1 THEN "new_object" ELSE ""]
  /\ objects = 0
  /\ top_object \in GeomBoxes
  /\ tracked_objects = EmptyDict
  /\ current_behavior = None
  /\ \E p \in StartPoses :
       /\ robot = [pose |-> p, go_to_pose_calls |-> <<>>, in_flight |-> {},
                   anchors |-> <<>>, say_text_calls |-> <<>>,
                   behaviors_started |-> 0, active_behaviors |-> {},
                   stop_calls |-> 0]
       /\ robot_start_position = p
  /\ outputs = <<>>
  /\ pops = [i \in 1..MaxEvents |-> 0]

\* lines 148-160 for that box: the spans, calc_distance_from_cozmo (which
\* divides by the halved width), the small-object adjustment and the fixed
\* object created with the resulting dimensions
Measure ==
  /\ pc[1] = "measure"
  /\ LET e == GeometryError(top_object)
     IN  IF e # ""
         THEN Raise(1, e) /\ UNCHANGED robot
         ELSE \E p \in AnchorPoses :
                /\ robot' = [robot EXCEPT !.anchors =
                                Append(@, FixedObject(top_object, p, robot))]
                /\ Goto(1, "say")
                /\ UNCHANGED exc
  /\ UNCHANGED <<queue, next_iu, extractor_thread_active, input_iu, output_iu,
                 last, objects, top_object, tracked_objects, current_behavior,
                 robot_start_position, outputs, pops>>

NextGeom == Measure

SpecGeom == InitGeom /\ [][NextGeom]_vars

\* --------------------------------------------------------------- claims
TopLabel(iu) == Payloads[iu.payload][1].label_str
AnchorsFor(L) == {i \in DOMAIN robot.anchors : robot.anchors[i].label = L}
OutputsFor(L) == {i \in DOMAIN outputs : outputs[i].object_name = L}
Started == {t \in Threads : pc[t] # "unstarted"}

\* C1: for every label L, create_custom_fixed_object has been called for L at
\* most once and at most one OutputEvent carries L; a thread about to create
\* an anchor (or past it, before the emission) is never handling a detection
\* whose label was in tracked_objects when the detection was checked.
C1_AnchoredAtMostOnce ==
  /\ \A L \in Labels : Cardinality(AnchorsFor(L)) <= 1 /\ Cardinality(OutputsFor(L)) <= 1
  /\ \A t \in Threads :
       /\ pc[t] = "anchor" => ~HasKey(tracked_objects, TopLabel(input_iu[t]))
       /\ pc[t] \in {"say", "emit"} => OutputsFor(TopLabel(input_iu[t])) = {}

\* C1 witness: a later DetectionEvent (another IU than the one the anchor is
\* grounded in) with an anchored label has been handled and dropped.
C1_Witness ==
  \E t \in Threads :
    /\ last[t] = "already_tracked"
    /\ pc[t] = "poll"
    /\ \E i \in DOMAIN outputs :
         /\ outputs[i].object_name = TopLabel(input_iu[t])
         /\ outputs[i].grounded_in # input_iu[t].id
    /\ Cardinality(AnchorsFor(TopLabel(input_iu[t]))) = 1

\* C2: at most one behaviour handle is active, and it is the one the module
\* holds; start_behavior is called only when current_behavior is None, and
\* stop() is called, and the handle cleared, only when one is held.
C2_AtMostOneHandle ==
  /\ [](/\ Cardinality(robot.active_behaviors) <= 1
        /\ robot.active_behaviors =
             (IF current_behavior = None THEN {} ELSE {current_behavior}))
  /\ [][/\ robot'.behaviors_started # robot.behaviors_started =>
             /\ current_behavior = None
             /\ robot'.behaviors_started = robot.behaviors_started + 1
        /\ robot'.stop_calls # robot.stop_calls =>
             /\ current_behavior # None
             /\ robot'.stop_calls = robot.stop_calls + 1
        /\ (current_behavior # None /\ current_behavior' = None) =>
             robot'.stop_calls = robot.stop_calls + 1]_vars

\* C2 witness: "pause" was handled while Idle (stop_execution returned
\* without calling stop) and an "explore" command is being handled next.
C2_Witness ==
  \E t \in Threads :
    /\ last[t] = "pause"
    /\ pc[t] = "classify"
    /\ input_iu[t].type = SpeechRecognitionIU
    /\ Command(input_text(input_iu[t])) = "explore"
    /\ current_behavior = None
    /\ robot.stop_calls = 0

\* C3 (as claimed): a poll cycle that begins after shutdown() observes the
\* stop flag and does not go on to dequeue.
C3_StopFlagObserved ==
  [][\A t \in Threads :
       (extractor_thread_active = "False" /\ pc[t] = "poll") => pc'[t] # "pop"]_vars

\* C4 (as claimed): no consumer loop is ever ended by an actuation call that
\* raised or by a top object without a geometry field.
C4_LoopSurvivesBadInteraction ==
  \A t \in Threads :
    ~(pc[t] = "dead" /\ exc[t] \in {"ActuationFailure", "KeyError:geometry"})

\* Update messages used to probe process_update: up to MaxMsgLen pairs over
\* two IUs that are not in the queue.
ProbeIUs == {IU(MaxEvents + 1, SpeechRecognitionIU, 1, 0),
             IU(MaxEvents + 2, DetectedObjectsIU, 0, 1)}
ProbeMessages ==
  UNION {[1..n -> ProbeIUs \X UpdateTypes] : n \in 1..MaxMsgLen}
AddsOf(um) == {i \in DOMAIN um : um[i][2] = "ADD"}
LastAdd(um) == um[CHOOSE i \in AddsOf(um) : \A j \in AddsOf(um) : j <= i][1]

\* Every queue content the producer can leave: nothing, or one IU.
ProbeQueues == {<<>>} \cup {<<iu>> : iu \in UNION {NewIUs(n) : n \in 1..MaxEvents}}

\* process_update run on a probe message from a probe queue: with at least
\* one ADD the queue ends holding exactly the IU of the last ADD, with none
\* it is left as it was.
ProcessUpdateKeepsLastAdd ==
  \A q \in ProbeQueues, um \in ProbeMessages :
    ProcessUpdateRun(q, um) = (IF AddsOf(um) = {} THEN q ELSE <<LastAdd(um)>>)

\* C5: the queue never holds more than one event (it is always one of the
\* probe queues), and from each of them process_update on an update message
\* with several ADDs leaves only the last ADDed IU queued, the IU queued
\* before being dropped.
C5_DropOldest ==
  /\ Len(queue) <= 1
  /\ queue \in ProbeQueues
  /\ ProcessUpdateKeepsLastAdd

\* C5 witness: the queue holds the second IU while the first was never
\* dequeued: the enqueue into the full queue dropped it.
C5_Witness ==
  /\ Len(queue) = 1
  /\ queue[1].id = 2
  /\ pops[1] = 0
  /\ Started # {}

\* C6 (as claimed): an IU is dequeued at most once, and once the loop has
\* finished handling it (it is back at the top of the loop) the IU is not in
\* the queue.
C6_ConsumedAtMostOnce ==
  /\ \A i \in 1..MaxEvents : pops[i] <= 1
  /\ \A t \in Threads :
       pc[t] = "poll" => \A k \in DOMAIN queue : queue[k].id # input_iu[t].id

C8_OneOutputPerTrackedLabel ==
  /\ \A L \in DOMAIN tracked_objects :
       (\A t \in Threads : ~(pc[t] \in {"say", "emit"} /\ output_iu[t].object_name = L))
         => /\ Cardinality(OutputsFor(L)) = 1
            /\ \A i \in OutputsFor(L) : outputs[i].object_id = tracked_objects[L][1].object_id
  /\ \A i \in DOMAIN outputs : HasKey(tracked_objects, outputs[i].object_name)

\* C9 (as claimed): a loop whose last handled command is "explore" is still
\* running and the Coordinator is Exploring.
C9_ExploreStartsBehavior ==
  \A t \in Threads :
    last[t] = "explore" => (pc[t] # "dead" /\ current_behavior # None)

\* A SpeechRecognitionIU whose normalised text contains "home" and neither
\* "pause" nor "explore"
HomeCommand(iu) ==
  /\ iu.type = SpeechRecognitionIU
  /\ Contains(HOME, Lower(Strip(Texts[iu.text])))
  /\ ~Contains(PAUSE, Lower(Strip(Texts[iu.text])))
  /\ ~Contains(EXPLORE, Lower(Strip(Texts[iu.text])))

\* C10: the step that handles a "home" command calls go_to_pose once, with
\* robot_start_position, and waits; until the wait ends no further go_to_pose
\* is issued and nothing is dequeued; neither step changes tracked_objects or
\* the output stream; robot_start_position is never reassigned.
C10_HomeGoesToStartPose ==
  /\ [][\A t \in Threads :
          (pc[t] = "classify" /\ HomeCommand(input_iu[t]) /\ pc'[t] # "classify") =>
            /\ robot'.go_to_pose_calls =
                 Append(robot.go_to_pose_calls, robot_start_position)
            /\ pc'[t] = "wait_completed"
            /\ tracked_objects' = tracked_objects
            /\ outputs' = outputs]_vars
  /\ [][\A t \in Threads :
          pc[t] = "wait_completed" =>
            /\ robot'.go_to_pose_calls = robot.go_to_pose_calls
            /\ pc'[t] \in {"wait_completed", "poll", "dead"}
            /\ tracked_objects' = tracked_objects
            /\ outputs' = outputs]_vars
  /\ [][robot_start_position' = robot_start_position]_vars
  /\ [](\A t \in Threads : Waiting(robot, t) => pc[t] = "wait_completed")

\* C10 witness: go_to_pose for "home" is in flight while the robot stands at
\* another pose than the one captured in __init__.
C10_Witness ==
  \E t \in Threads :
    /\ last[t] = "home"
    /\ pc[t] = "wait_completed"
    /\ HomeCommand(input_iu[t])
    /\ robot.pose # robot_start_position
    /\ robot.go_to_pose_calls[Len(robot.go_to_pose_calls)] = robot_start_position

\* A SpeechRecognitionIU whose normalised text contains none of "pause",
\* "explore" and "home"
LookupCommand(iu) ==
  /\ iu.type = SpeechRecognitionIU
  /\ ~Contains(PAUSE, Lower(Strip(Texts[iu.text])))
  /\ ~Contains(EXPLORE, Lower(Strip(Texts[iu.text])))
  /\ ~Contains(HOME, Lower(Strip(Texts[iu.text])))

\* C11: the step that handles such a command whose text is not a key of
\* tracked_objects makes no call on the robot, raises nothing and changes
\* neither current_behavior, tracked_objects nor the output stream; when the
\* text is a key, the one go_to_pose issued is computed from the object_pose
\* of the first record of that key (x reduced by a third).
C11_UnknownNameIsNoOp ==
  [][\A t \in Threads :
       (pc[t] = "classify" /\ LookupCommand(input_iu[t]) /\ pc'[t] # "classify") =>
         LET name == Lower(Strip(Texts[input_iu[t].text]))
         IN  IF name \notin DOMAIN tracked_objects
             THEN /\ robot' = robot
                  /\ current_behavior' = current_behavior
                  /\ tracked_objects' = tracked_objects
                  /\ outputs' = outputs
                  /\ exc' = exc
                  /\ pc'[t] = "poll"
             ELSE /\ 3 * robot'.go_to_pose_calls[Len(robot'.go_to_pose_calls)] =
                       2 * tracked_objects[name][1].object_pose
                  /\ Len(robot'.go_to_pose_calls) = Len(robot.go_to_pose_calls) + 1
                  /\ tracked_objects' = tracked_objects
                  /\ outputs' = outputs]_vars

\* C11 witness: "find mug" was handled as a no-op while "mug" was tracked.
C11_Witness ==
  \E t \in Threads :
    /\ last[t] = "not_found"
    /\ pc[t] = "poll"
    /\ LookupCommand(input_iu[t])
    /\ Contains(MUG, Lower(Strip(Texts[input_iu[t].text])))
    /\ HasKey(tracked_objects, MUG)
    /\ robot.go_to_pose_calls = <<>>

\* The box measured by SpecGeom has non-negative spans
NonNegativeSpans(o) == object_x_dims(o) >= 0 /\ object_y_dims(o) >= 0

\* C12: for a box with non-negative spans the fixed object is created with no
\* dimension below 10 (2 * MinDim half pixels), and with exactly the halved
\* spans when both are at least 10.
C12_FootprintFloor ==
  (pc[1] = "say" /\ NonNegativeSpans(top_object) /\ Len(robot.anchors) = 1) =>
    LET a == robot.anchors[1]
        w == object_x_dims(top_object)
        h == object_y_dims(top_object)
    IN  /\ a.z_size_mm >= 2 * MinDim
        /\ a.y_size_mm >= 2 * MinDim
        /\ a.x_size_mm >= 2 * MinDim
        /\ (w >= 2 * MinDim /\ h >= 2 * MinDim) =>
             (a.z_size_mm = w /\ a.y_size_mm = h /\ a.x_size_mm = h)

\* C12 witness: a box at the floor on one axis and above it on the other has
\* been measured and keeps its halved spans.
C12_Witness ==
  /\ pc[1] = "say"
  /\ Len(robot.anchors) = 1
  /\ object_x_dims(top_object) = 2 * MinDim + 2
  /\ object_y_dims(top_object) = 2 * MinDim
  /\ robot.anchors[1].z_size_mm = 2 * MinDim + 2

Max(a, b) == IF a >= b THEN a ELSE b

\* C18 as stated: the fixed object of every measured box has the dimensions
\* (max(w/2, 10), max(h/2, 10)), each axis floored on its own.
C18_PerAxisFloor ==
  (pc[1] = "say" /\ Len(robot.anchors) = 1) =>
    LET a == robot.anchors[1]
    IN  /\ a.z_size_mm = Max(object_x_dims(top_object), 2 * MinDim)
        /\ a.y_size_mm = Max(object_y_dims(top_object), 2 * MinDim)

\* C18: the floor is joint, not per axis: when either halved span is below 10
\* both dimensions become 10 (a 10 x 10 cube), so an axis that was already at
\* least 10 does not keep its value; otherwise both keep their halved spans.
C18_JointFloor ==
  (pc[1] = "say" /\ Len(robot.anchors) = 1) =>
    LET a == robot.anchors[1]
        w == object_x_dims(top_object)
        h == object_y_dims(top_object)
    IN  IF w < 2 * MinDim \/ h < 2 * MinDim
        THEN a.z_size_mm = 2 * MinDim /\ a.y_size_mm = 2 * MinDim
        ELSE a.z_size_mm = w /\ a.y_size_mm = h

\* C18 witness: a box narrow on x and tall on y was measured, and its y
\* dimension was reduced to the floor.
C18_Witness ==
  /\ pc[1] = "say"
  /\ Len(robot.anchors) = 1
  /\ object_x_dims(top_object) = MinDim
  /\ object_y_dims(top_object) = 2 * MinDim + 2
  /\ robot.anchors[1].y_size_mm = 2 * MinDim

\* The threads running _extractor_thread
Consumers == {t \in Threads : pc[t] \notin {"unstarted", "dead"}}

\* C13: whatever sequence of prepare_run() and shutdown() the host makes, at
\* most one thread is running the consumer loop.
C13_AtMostOneConsumer == Cardinality(Consumers) <= 1

\* A DetectedObjectsIU whose payload holds no object
ZeroObjects(iu) ==
  /\ iu # NoIU
  /\ iu.type = DetectedObjectsIU
  /\ Len(Payloads[iu.payload]) = 0

\* C14: once a thread has handled a detection of zero objects, top_object is
\* None, no error has occurred and the thread is back in its poll cycle.
C14_ZeroObjectsOnlyClearsTop ==
  \A t \in Threads :
    (ZeroObjects(input_iu[t]) /\ pc[t] \notin {"classify", "dedup"}) =>
      /\ pc[t] \in {"poll", "pop"}
      /\ exc[t] = ""
      /\ top_object = NoObj

\* Thread t takes a step of its handling of a SpeechRecognitionIU: the branch
\* of lines 112-125, or the wait_for_completed() the branch blocks in
SpeechStep(t) ==
  /\ pc'[t] # pc[t]
  /\ \/ pc[t] = "classify" /\ input_iu[t].type = SpeechRecognitionIU
     \/ pc[t] = "wait_completed"

\* C15: a step handling a speech event creates no anchor, emits no output,
\* leaves tracked_objects, objects, top_object and the queue as they were, and
\* ends at the next poll cycle (or in the wait, or with the thread dead), never
\* in the detection lines.
C15_SpeechNeverFallsThrough ==
  [][\A t \in Threads :
       SpeechStep(t) =>
         /\ robot'.anchors = robot.anchors
         /\ robot'.say_text_calls = robot.say_text_calls
         /\ outputs' = outputs
         /\ output_iu' = output_iu
         /\ tracked_objects' = tracked_objects
         /\ objects' = objects
         /\ top_object' = top_object
         /\ queue' = queue
         /\ pc'[t] \in {"poll", "wait_completed", "dead"}
         /\ exc'[t] # "KeyError:object0"]_vars

\* C15 witness: a speech command was handled to the end while a top object
\* and a tracked label existed.
C15_Witness ==
  \E t \in Threads :
    /\ pc[t] = "poll"
    /\ input_iu[t].type = SpeechRecognitionIU
    /\ last[t] = "pause"
    /\ top_object # NoObj
    /\ tracked_objects # EmptyDict
    /\ Len(outputs) = 1

\* C16: calc_distance_from_cozmo is never called with a width of zero or less:
\* no thread has died of the division, and every distance computed has a
\* positive divisor.
C16_WidthGuarded ==
  /\ \A t \in Threads : exc[t] # "ZeroDivisionError"
  /\ \A k \in 1..Len(robot.anchors) : robot.anchors[k].distance.den > 0

\* C17: every key of tracked_objects holds exactly one record, and a step never
\* removes a key nor changes the record stored under it (so the append branch
\* of line 162 is never taken).
C17_RegistryAppendOnly ==
  /\ [](\A L \in DOMAIN tracked_objects : Len(tracked_objects[L]) = 1)
  /\ [][\A L \in DOMAIN tracked_objects :
          /\ L \in DOMAIN tracked_objects'
          /\ tracked_objects'[L] = tracked_objects[L]]_vars

\* C19: with the single consumer loop, a thread that has seen a non-empty
\* queue at line 105 still finds it non-empty at popleft, whatever the producer
\* did in between, and no thread has died of popleft on an empty deque.
C19_PopLeftNeverEmpty ==
  \A t \in Threads :
    /\ pc[t] = "pop" => queue # <<>>
    /\ exc[t] # "IndexError"

\* C19 witness: the producer replaced the queued event before the consumer's
\* popleft (event 1 was never dequeued), the popleft succeeded on event 2, and
\* the producer has enqueued again since.
C19_Witness ==
  \E t \in Threads :
    /\ pc[t] = "classify"
    /\ input_iu[t].id = 2
    /\ pops[1] = 0
    /\ pops[2] = 1
    /\ queue # <<>>
    /\ exc[t] = ""

\* C20: a queued event leaves the queue only by being dequeued (line 109), by
\* a later enqueue of the producer, or by the clear of line 141 for a label
\* already tracked.
C20_QueuedEventLeavesOnlyByOverflowOrClear ==
  [][(queue # <<>> /\ queue' # queue) =>
       \/ next_iu' # next_iu
       \/ \E t \in Threads : pc[t] = "pop" /\ pc'[t] = "classify"
       \/ \E t \in Threads :
            /\ pc[t] = "dedup"
            /\ pc'[t] = "poll"
            /\ last'[t] = "already_tracked"
            /\ queue' = <<>>]_vars

====
